---- MODULE Spec2Model ----
(***************************************************************************)
(* Model of scripts/convert_feature_graphic.py and                         *)
(* scripts/convert_screenshots.py: the fit / centre / paste transform,     *)
(* the 'with Image.open(...)' scope around it, and the batch loop of       *)
(* process_screenshots.                                                    *)
(*                                                                         *)
(* Python floats are IEEE-754 binary64.  The scale factor is a float and   *)
(* int() truncates a float product, so the arithmetic is modelled bit for  *)
(* bit: a float is a 53-bit significand (a sequence of bits, most          *)
(* significant first) and a binary exponent, and every operation rounds to *)
(* nearest, ties to even.                                                  *)
(***************************************************************************)
EXTENDS Integers, Sequences, FiniteSets, TLC

(***************************************************************************)
(* Bounds of the model.                                                    *)
(***************************************************************************)
MaxSrc == 4
MaxFiles == 3

(***************************************************************************)
(* binary64 arithmetic.                                                    *)
(***************************************************************************)
Precision == 53

\* The float 0.0 (the only float of the model without a leading 1 bit).
FZero == [m |-> <<>>, e |-> 0]

\* Number of binary digits of a natural number (0 for 0).
BitLen(n) == CHOOSE k \in 0..30 : n < 2^k /\ (k = 0 \/ n >= 2^(k - 1))

\* Binary digits of a natural number, most significant first; <<>> for 0.
NatBits(n) == [i \in 1..BitLen(n) |-> (n \div 2^(BitLen(n) - i)) % 2]

RECURSIVE BitsNat(_)
\* The natural number written by a (short) sequence of binary digits.
BitsNat(b) ==
    IF b = <<>> THEN 0
    ELSE 2 * BitsNat(SubSeq(b, 1, Len(b) - 1)) + b[Len(b)]

Zeros(k) == [i \in 1..k |-> 0]

\* Drops leading zero digits.
StripZeros(b) ==
    IF \A i \in 1..Len(b) : b[i] = 0 THEN <<>>
    ELSE SubSeq(b, CHOOSE i \in 1..Len(b) :
                      b[i] = 1 /\ \A j \in 1..(i - 1) : b[j] = 0,
                Len(b))

AnyOne(b) == \E i \in 1..Len(b) : b[i] = 1

\* b + 1 on digit sequences (the result may be one digit longer).
IncBits(b) ==
    IF \A i \in 1..Len(b) : b[i] = 1 THEN <<1>> \o Zeros(Len(b))
    ELSE LET k == CHOOSE i \in 1..Len(b) :
                     b[i] = 0 /\ \A j \in (i + 1)..Len(b) : b[j] = 1
         IN  [i \in 1..Len(b) |-> IF i < k THEN b[i] ELSE IF i = k THEN 1 ELSE 0]

\* Long significands are multiplied and divided in limbs of LimbBits digits,
\* so that every intermediate value fits a machine integer.
LimbBits == 13
Base == 2^LimbBits

\* The limbs of a digit sequence, most significant first.
ToLimbs(b) ==
    LET pad == (LimbBits - (Len(b) % LimbBits)) % LimbBits
        p   == Zeros(pad) \o b
    IN  [j \in 1..(Len(p) \div LimbBits) |->
            BitsNat(SubSeq(p, LimbBits * (j - 1) + 1, LimbBits * j))]

\* The digits of a sequence of limbs (LimbBits digits for each limb).
FromLimbs(l) ==
    [i \in 1..(LimbBits * Len(l)) |->
        (l[(i - 1) \div LimbBits + 1]
            \div 2^(LimbBits - 1 - ((i - 1) % LimbBits))) % 2]

RECURSIVE MulLimbs(_, _, _, _)
\* l * n + carry for a natural n < 2^17, limb by limb from the right; acc
\* holds the product limbs found so far.  The result is a digit sequence.
MulLimbs(l, n, carry, acc) ==
    IF l = <<>> THEN NatBits(carry) \o FromLimbs(acc)
    ELSE MulLimbs(SubSeq(l, 1, Len(l) - 1), n,
                  (l[Len(l)] * n + carry) \div Base,
                  <<(l[Len(l)] * n + carry) % Base>> \o acc)

\* b * n on a digit sequence b.
MulBits(b, n) == MulLimbs(ToLimbs(b), n, 0, <<>>)

RECURSIVE DivLimbs(_, _, _, _)
\* Long division of the limbs l by a natural n < 2^17, entered with
\* remainder r and the quotient limbs q found so far: all quotient digits
\* and the final remainder.
DivLimbs(l, n, r, q) ==
    IF l = <<>> THEN [q |-> FromLimbs(q), r |-> r]
    ELSE DivLimbs(Tail(l), n, (r * Base + l[1]) % n,
                  Append(q, (r * Base + l[1]) \div n))

\* b / n on a digit sequence b: quotient digits and remainder.
DivBits(b, n) == DivLimbs(ToLimbs(b), n, 0, <<>>)

\* Round-to-nearest-even of  bits * 2^e (+ something in (0,1) ulp of the
\* last digit when sticky)  to a float.  bits has no leading zero.
RoundBits(bits, e, sticky) ==
    IF bits = <<>> THEN FZero
    ELSE IF Len(bits) <= Precision
    THEN [m |-> bits \o Zeros(Precision - Len(bits)),
          e |-> e - (Precision - Len(bits))]
    ELSE LET keep  == SubSeq(bits, 1, Precision)
             guard == bits[Precision + 1]
             tail  == SubSeq(bits, Precision + 2, Len(bits))
             up    == guard = 1 /\ (sticky \/ AnyOne(tail) \/ keep[Precision] = 1)
             e2    == e + (Len(bits) - Precision)
             inc   == IncBits(keep)
         IN  IF ~up THEN [m |-> keep, e |-> e2]
             ELSE IF Len(inc) > Precision
                  THEN [m |-> SubSeq(inc, 1, Precision), e |-> e2 + 1]
                  ELSE [m |-> inc, e |-> e2]

\* float(n) for a natural n (exact for every n of the model).
ToFloat(n) == RoundBits(NatBits(n), 0, FALSE)

\* a * n  where a is a float and n a natural (Python: float * int).
FMul(a, n) ==
    IF a = FZero \/ n = 0 THEN FZero
    ELSE RoundBits(StripZeros(MulBits(a.m, n)), a.e, FALSE)

\* a / n  where a is a float and n a positive natural (Python: float / int).
FDiv(a, n) ==
    IF a = FZero THEN FZero
    ELSE LET k == Len(NatBits(n)) + 2
             d == DivBits(a.m \o Zeros(k), n)
         IN  RoundBits(StripZeros(d.q), a.e - k, d.r # 0)

\* Lexicographic order on digit sequences of equal length.
BitsLess(a, b) ==
    \E i \in 1..Len(a) : a[i] < b[i] /\ \A j \in 1..(i - 1) : a[j] = b[j]

\* a < b on non-negative floats.
FLess(a, b) ==
    IF b = FZero THEN FALSE
    ELSE IF a = FZero THEN TRUE
    ELSE IF a.e # b.e THEN a.e < b.e
    ELSE BitsLess(a.m, b.m)

FLeq(a, b) == a = b \/ FLess(a, b)

\* max in the place of min.
FMax(a, b) == IF FLess(a, b) THEN b ELSE a

\* Python's min(a, b): b if b < a, else a.
FMin(a, b) == IF FLess(b, a) THEN b ELSE a

\* Python's int(a) for a non-negative float: truncation.
FInt(a) ==
    IF a = FZero THEN 0
    ELSE IF a.e >= 0 THEN BitsNat(a.m \o Zeros(a.e))
    ELSE IF -a.e >= Precision THEN 0
    ELSE BitsNat(SubSeq(a.m, 1, Precision + a.e))

\* The float literals 0.8 and 0.9 (the floats nearest to 4/5 and 9/10).
Fill08 == FDiv(ToFloat(4), 5)
Fill09 == FDiv(ToFloat(9), 10)

(***************************************************************************)
(* File names are sequences of characters, so that lower(), endswith() and *)
(* rsplit() are computed and not assumed.                                  *)
(***************************************************************************)
Uppers == <<"A", "B", "C", "D", "E", "F", "G", "H", "I", "J", "K", "L", "M",
            "N", "O", "P", "Q", "R", "S", "T", "U", "V", "W", "X", "Y", "Z">>
Lowers == <<"a", "b", "c", "d", "e", "f", "g", "h", "i", "j", "k", "l", "m",
            "n", "o", "p", "q", "r", "s", "t", "u", "v", "w", "x", "y", "z">>

\* str.lower()
Lower(s) ==
    [i \in 1..Len(s) |->
        IF \E k \in 1..26 : Uppers[k] = s[i]
        THEN Lowers[CHOOSE k \in 1..26 : Uppers[k] = s[i]]
        ELSE s[i]]

\* str.endswith(suffix)
EndsWith(s, suffix) ==
    /\ Len(s) >= Len(suffix)
    /\ SubSeq(s, Len(s) - Len(suffix) + 1, Len(s)) = suffix

DotPng  == <<".", "p", "n", "g">>
DotJpg  == <<".", "j", "p", "g">>
DotJpeg == <<".", "j", "p", "e", "g">>

\* filename.lower().endswith(('.png', '.jpg', '.jpeg'))
IsImageName(filename) ==
    \E suffix \in {DotPng, DotJpg, DotJpeg} : EndsWith(Lower(filename), suffix)

\* filename.rsplit(".", 1)[0]
Stem(filename) ==
    IF \E i \in 1..Len(filename) : filename[i] = "."
    THEN LET last == CHOOSE i \in 1..Len(filename) :
                        /\ filename[i] = "."
                        /\ \A j \in (i + 1)..Len(filename) : filename[j] # "."
         IN  SubSeq(filename, 1, last - 1)
    ELSE filename

TabletPrefix == <<"t", "a", "b", "l", "e", "t", "_">>

\* f'tablet_{filename.rsplit(".", 1)[0]}.png'
OutputName(filename) == TabletPrefix \o Stem(filename) \o DotPng

(***************************************************************************)
(* The fit / centre / paste transform.                                     *)
(***************************************************************************)
Feature == "convert_feature_graphic"
Tablet  == "create_tablet_screenshot"

\* Default arguments target_width, target_height of the two functions.
DefaultTarget(f) == IF f = Feature THEN <<1024, 500>> ELSE <<1920, 1080>>

\* The horizontal fill fraction used for the height as well.
BoundYWide(f, th) == IF f = Feature THEN ToFloat(th) ELSE FMul(Fill08, th)

\* The tablet margin applied in both functions.
BoundXMargin(f, tw) == FMul(Fill08, tw)

\* The numerators of the two quotients under min(): target_width and
\* target_height in convert_feature_graphic, target_width * 0.8 and
\* target_height * 0.9 in create_tablet_screenshot.
BoundX(f, tw) == IF f = Feature THEN ToFloat(tw) ELSE FMul(Fill08, tw)
BoundY(f, th) == IF f = Feature THEN ToFloat(th) ELSE FMul(Fill09, th)

\* scale = min(.. / img_width, .. / img_height)
Scale(f, tw, th, iw, ih) ==
    FMin(FDiv(BoundX(f, tw), iw), FDiv(BoundY(f, th), ih))

\* int(img_width * scale), int(img_height * scale)
ScaledDim(d, s) == FInt(FMul(s, d))

\* The whole slack as offset.
OffsetNoHalf(t, n) == t - n

\* (target_width - new_width) // 2
Offset(t, n) == (t - n) \div 2

NoImage == [size |-> <<0, 0>>, mode |-> "none", box |-> <<0, 0, 0, 0>>]

\* Image.new with width and height in the wrong order.
ImageNewSwapped(w, h) ==
    [size |-> <<h, w>>, mode |-> "RGB", box |-> <<0, 0, 0, 0>>]

\* Image.new('RGB', (w, h), colour): a canvas that is all background.
ImageNew(w, h) == [size |-> <<w, h>>, mode |-> "RGB", box |-> <<0, 0, 0, 0>>]

\* img.resize((w, h), LANCZOS)
ImageResize(im, w, h) == [im EXCEPT !.size = <<w, h>>]

\* canvas.paste(im, (px, py)): im overwrites the box it covers; the size of
\* the canvas is not changed.
ImagePaste(canvas, im, px, py) ==
    [canvas EXCEPT !.box = <<px, py, im.size[1], im.size[2]>>]

(***************************************************************************)
(* Inputs.                                                                 *)
(***************************************************************************)
\* Widths and heights of source images: the small ones, the sizes on which
\* binary64 rounding shows (19, 29), and the phone, tablet and canvas sizes.
SrcDims == (0..MaxSrc) \cup {19, 29, 500, 1000, 1024, 1080, 1920, 2000, 2400}

\* What goes wrong with a file, and where ("none": nothing).  "open": the
\* file is not an image Image.open can identify; the others: the named step
\* raises (truncated pixel data, memory, a write failure).
RgbFaults  == {"none", "open", "resize", "paste", "save"}
RgbaFaults == {"none", "convert"}

ImageFiles(dims) ==
    [width : dims, height : dims, mode : {"RGB"}, fault : RgbFaults]
    \cup [width : dims, height : dims, mode : {"RGBA"}, fault : RgbaFaults]

\* (target_width, target_height) arguments: the two defaults and the
\* non-positive ones.
Targets == {<<1024, 500>>, <<1920, 1080>>, <<0, 500>>, <<1024, 0>>,
            <<-1, 500>>, <<1920, -1>>}

InPath  == <<"i", "n">>
OutPath == <<"o", "u", "t">>

\* Names a directory listing may hold.
NameA1 == <<"a", ".", "p", "n", "g">>
NameA2 == <<"a", ".", "j", "p", "g">>
NameB  == <<"b", ".", "J", "P", "E", "G">>
NameC  == <<"c", ".", "d", ".", "P", "n", "g">>
NameT  == <<"n", ".", "t", "x", "t">>
Names  == {NameA1, NameA2, NameB, NameC, NameT}

Phone(mode, fault) ==
    [width |-> 1080, height |-> 2400, mode |-> mode, fault |-> fault]

\* What a file of the folder may be.
Contents(name) ==
    IF name = NameA1 THEN {Phone("RGB", "none"), Phone("RGB", "open"),
                           Phone("RGB", "save")}
    ELSE IF name = NameA2 THEN {Phone("RGB", "none"), Phone("RGB", "resize"),
                                Phone("RGB", "paste")}
    ELSE IF name = NameB THEN {Phone("RGBA", "none"), Phone("RGBA", "convert")}
    ELSE IF name = NameC THEN {Phone("RGB", "none")}
    ELSE {Phone("RGB", "open")}

Range(s) == {s[i] : i \in 1..Len(s)}

\* os.listdir: the names of the folder, each once, in any order.
Listings ==
    {s \in UNION {[1..n -> Names] : n \in 0..MaxFiles} :
        \A i, j \in 1..Len(s) : i # j => s[i] # s[j]}

Folders(s) == {f \in [Range(s) -> UNION {Contents(n) : n \in Names}] :
                 \A n \in Range(s) : f[n] \in Contents(n)}

(***************************************************************************)
(* State.                                                                  *)
(***************************************************************************)
VARIABLES
    fn,             \* the conversion function that is running
    target_width, target_height, input_path, output_path,   \* its arguments
    pc,             \* its position
    img, new_img, scale, new_width, new_height, resized_img, x, y, \* locals
    exc,            \* the exception being raised, or "none"
    folder,         \* the input files: path -> file
    openFiles,      \* paths of the files that are open
    disk,           \* the output files: path -> image
    listing, idx,   \* process_screenshots: os.listdir(...) and the position in it
    bpc,            \* process_screenshots: position
    log,            \* lines printed by process_screenshots
    attempted       \* files handed to create_tablet_screenshot, in order

args   == <<fn, target_width, target_height, input_path, output_path>>
locals == <<img, new_img, scale, new_width, new_height, resized_img, x, y>>
batch  == <<listing, idx, bpc, log, attempted>>
vars   == <<args, pc, locals, exc, folder, openFiles, disk, batch>>

FreshLocals ==
    /\ img = NoImage /\ new_img = NoImage /\ resized_img = NoImage
    /\ scale = FZero /\ new_width = 0 /\ new_height = 0 /\ x = 0 /\ y = 0

\* The locals of a call that starts.
ResetLocals ==
    /\ img' = NoImage /\ new_img' = NoImage /\ resized_img' = NoImage
    /\ scale' = FZero /\ new_width' = 0 /\ new_height' = 0 /\ x' = 0 /\ y' = 0

\* A single call of one of the two conversion functions.
Init ==
    /\ fn \in {Feature, Tablet}
    /\ \E t \in Targets : target_width = t[1] /\ target_height = t[2]
    /\ input_path = InPath /\ output_path = OutPath
    /\ folder \in [{InPath} -> ImageFiles(SrcDims)]
    /\ pc = "entry" /\ exc = "none" /\ FreshLocals
    /\ openFiles = {} /\ disk = << >>
    /\ listing = << >> /\ idx = 1 /\ bpc = "none" /\ log = << >>
    /\ attempted = << >>

\* A call of process_screenshots on a folder.
BatchInit ==
    /\ fn = Tablet /\ target_width = 0 /\ target_height = 0
    /\ input_path = << >> /\ output_path = << >>
    /\ listing \in Listings
    /\ folder \in Folders(listing)
    /\ pc = "idle" /\ exc = "none" /\ FreshLocals
    /\ openFiles = {} /\ disk = << >>
    /\ idx = 1 /\ bpc = "start" /\ log = << >> /\ attempted = << >>

(***************************************************************************)
(* convert_feature_graphic / create_tablet_screenshot, statement by        *)
(* statement.                                                              *)
(***************************************************************************)
\* An exception raised inside the with block: the block is left through
\* __exit__.
Raise(e) == exc' = e /\ pc' = "unwind"

\* with Image.open(input_path) as img:
Open ==
    /\ pc = "entry"
    /\ IF folder[input_path].fault = "open"
       THEN /\ exc' = "UnidentifiedImageError" /\ pc' = "raised"
            /\ UNCHANGED <<img, openFiles>>
       ELSE /\ openFiles' = openFiles \cup {input_path}
            /\ img' = [NoImage EXCEPT
                         !.size = <<folder[input_path].width,
                                    folder[input_path].height>>,
                         !.mode = folder[input_path].mode]
            /\ pc' = "opened" /\ UNCHANGED exc
    /\ UNCHANGED <<args, new_img, scale, new_width, new_height, resized_img,
                   x, y, folder, disk, batch>>

\* if img.mode != 'RGB': img = img.convert('RGB')
Convert ==
    /\ pc = "opened"
    /\ IF img.mode # "RGB"
       THEN IF folder[input_path].fault = "convert"
            THEN Raise("OSError") /\ UNCHANGED img
            ELSE img' = [img EXCEPT !.mode = "RGB"] /\ pc' = "rgb"
                 /\ UNCHANGED exc
       ELSE pc' = "rgb" /\ UNCHANGED <<img, exc>>
    /\ UNCHANGED <<args, new_img, scale, new_width, new_height, resized_img,
                   x, y, folder, openFiles, disk, batch>>

\* new_img = Image.new('RGB', (target_width, target_height), (23, 20, 41))
\* Image.new raises ValueError on a negative width or height.
NewCanvas ==
    /\ pc = "rgb"
    /\ IF target_width < 0 \/ target_height < 0
       THEN Raise("ValueError") /\ UNCHANGED new_img
       ELSE /\ new_img' = ImageNew(target_width, target_height)
            /\ pc' = "canvas" /\ UNCHANGED exc
    /\ UNCHANGED <<args, img, scale, new_width, new_height, resized_img,
                   x, y, folder, openFiles, disk, batch>>

\* scale = min(...); new_width = int(img_width * scale);
\* new_height = int(img_height * scale)
Fit ==
    /\ pc = "canvas"
    /\ IF img.size[1] = 0 \/ img.size[2] = 0
       THEN Raise("ZeroDivisionError")
            /\ UNCHANGED <<scale, new_width, new_height>>
       ELSE LET s == Scale(fn, target_width, target_height,
                           img.size[1], img.size[2])
            IN  /\ scale' = s
                /\ new_width' = ScaledDim(img.size[1], s)
                /\ new_height' = ScaledDim(img.size[2], s)
                /\ pc' = "scaled" /\ UNCHANGED exc
    /\ UNCHANGED <<args, img, new_img, resized_img, x, y, folder, openFiles,
                   disk, batch>>

\* A resize that accepts an empty size.
ResizeAnySize ==
    /\ pc = "scaled"
    /\ IF folder[input_path].fault = "resize"
       THEN Raise("OSError") /\ UNCHANGED resized_img
       ELSE /\ resized_img' = ImageResize(img, new_width, new_height)
            /\ pc' = "resized" /\ UNCHANGED exc
    /\ UNCHANGED <<args, img, new_img, scale, new_width, new_height, x, y,
                   folder, openFiles, disk, batch>>

\* resized_img = img.resize((new_width, new_height), LANCZOS)
\* resize loads the pixel data, and raises ValueError unless both sizes
\* are at least 1.
Resize ==
    /\ pc = "scaled"
    /\ IF folder[input_path].fault = "resize"
       THEN Raise("OSError") /\ UNCHANGED resized_img
       ELSE IF new_width < 1 \/ new_height < 1
       THEN Raise("ValueError") /\ UNCHANGED resized_img
       ELSE /\ resized_img' = ImageResize(img, new_width, new_height)
            /\ pc' = "resized" /\ UNCHANGED exc
    /\ UNCHANGED <<args, img, new_img, scale, new_width, new_height, x, y,
                   folder, openFiles, disk, batch>>

\* x = (target_width - new_width) // 2; y = (target_height - new_height) // 2
\* new_img.paste(resized_img, (x, y))
Paste ==
    /\ pc = "resized"
    /\ x' = Offset(target_width, new_width)
    /\ y' = Offset(target_height, new_height)
    /\ IF folder[input_path].fault = "paste"
       THEN Raise("MemoryError") /\ UNCHANGED new_img
       ELSE /\ new_img' = ImagePaste(new_img, resized_img, x', y')
            /\ pc' = "pasted" /\ UNCHANGED exc
    /\ UNCHANGED <<args, img, scale, new_width, new_height, resized_img,
                   folder, openFiles, disk, batch>>

\* new_img.save(output_path, 'PNG', quality=...)
Save ==
    /\ pc = "pasted"
    /\ IF folder[input_path].fault = "save"
       THEN Raise("OSError") /\ UNCHANGED disk
       ELSE /\ disk' = [p \in DOMAIN disk \cup {output_path} |->
                          IF p = output_path THEN new_img ELSE disk[p]]
            /\ pc' = "saved" /\ UNCHANGED exc
    /\ UNCHANGED <<args, locals, folder, openFiles, batch>>

\* A scope that closes the file only when the block ends normally.
WithExitLeak ==
    /\ pc \in {"saved", "unwind"}
    /\ openFiles' = IF pc = "saved" THEN openFiles \ {input_path}
                    ELSE openFiles
    /\ pc' = IF pc = "saved" THEN "returned" ELSE "raised"
    /\ UNCHANGED <<args, locals, exc, folder, disk, batch>>

\* The end of the with block, reached by falling off its end or by an
\* exception: the file Image.open opened is closed.
WithExit ==
    /\ pc \in {"saved", "unwind"}
    /\ openFiles' = openFiles \ {input_path}
    /\ pc' = IF pc = "saved" THEN "returned" ELSE "raised"
    /\ UNCHANGED <<args, locals, exc, folder, disk, batch>>

ConvertStep ==
    \/ Open \/ Convert \/ NewCanvas \/ Fit \/ Resize \/ Paste \/ Save
    \/ WithExit

(***************************************************************************)
(* process_screenshots.                                                    *)
(***************************************************************************)
\* Path(output_folder).mkdir(parents=True, exist_ok=True)
Mkdir ==
    /\ bpc = "start"
    /\ bpc' = "loop"
    /\ UNCHANGED <<args, pc, locals, exc, folder, openFiles, disk, listing,
                   idx, log, attempted>>

\* for filename in os.listdir(input_folder): a name that is not an image
\* name is passed over.
SkipFile ==
    /\ bpc = "loop" /\ idx <= Len(listing)
    /\ ~IsImageName(listing[idx])
    /\ idx' = idx + 1
    /\ UNCHANGED <<args, pc, locals, exc, folder, openFiles, disk, listing,
                   bpc, log, attempted>>

\* try: print(f'Converting {filename}...');
\*      create_tablet_screenshot(input_path, output_path)
CallConvert ==
    /\ bpc = "loop" /\ idx <= Len(listing)
    /\ IsImageName(listing[idx])
    /\ input_path' = listing[idx]
    /\ output_path' = OutputName(listing[idx])
    /\ fn' = Tablet
    /\ target_width' = DefaultTarget(Tablet)[1]
    /\ target_height' = DefaultTarget(Tablet)[2]
    /\ log' = Append(log, [line |-> "Converting", file |-> listing[idx]])
    /\ attempted' = Append(attempted, listing[idx])
    /\ pc' = "entry" /\ exc' = "none" /\ ResetLocals
    /\ bpc' = "call"
    /\ UNCHANGED <<folder, openFiles, disk, listing, idx>>

\* print(f'Successfully converted {filename}')
OnReturn ==
    /\ bpc = "call" /\ pc = "returned"
    /\ log' = Append(log, [line |-> "Successfully converted",
                           file |-> listing[idx]])
    /\ idx' = idx + 1 /\ bpc' = "loop" /\ pc' = "idle"
    /\ UNCHANGED <<args, locals, exc, folder, openFiles, disk, listing,
                   attempted>>

\* No handler around the call: the exception ends the loop.
OnRaiseAbort ==
    /\ bpc = "call" /\ pc = "raised"
    /\ bpc' = "done" /\ pc' = "idle"
    /\ UNCHANGED <<args, locals, exc, folder, openFiles, disk, listing, idx,
                   log, attempted>>

\* except Exception as e: print(f'Error converting {filename}: {str(e)}')
OnRaise ==
    /\ bpc = "call" /\ pc = "raised"
    /\ log' = Append(log, [line |-> "Error converting", file |-> listing[idx]])
    /\ idx' = idx + 1 /\ bpc' = "loop" /\ pc' = "idle" /\ exc' = "none"
    /\ UNCHANGED <<args, locals, folder, openFiles, disk, listing, attempted>>

\* The listing is exhausted: process_screenshots returns.
Finish ==
    /\ bpc = "loop" /\ idx > Len(listing)
    /\ bpc' = "done"
    /\ UNCHANGED <<args, pc, locals, exc, folder, openFiles, disk, listing,
                   idx, log, attempted>>

Next == ConvertStep

BatchNext ==
    \/ Mkdir \/ SkipFile \/ CallConvert \/ OnReturn \/ OnRaise \/ Finish
    \/ Open \/ Convert \/ NewCanvas \/ Fit \/ Resize \/ Paste \/ Save
    \/ WithExit

Spec == Init /\ [][Next]_vars

BatchSpec == BatchInit /\ [][BatchNext]_vars

\* The steps other than Fit.
OtherSteps ==
    \/ Mkdir \/ SkipFile \/ CallConvert \/ OnReturn \/ OnRaise \/ Finish
    \/ Open \/ Convert \/ NewCanvas \/ Resize \/ Paste \/ Save \/ WithExit

\* Fit seen from outside: it can be taken exactly at "canvas", and taking it
\* leaves "canvas".  (Its fairness is stated on this form, which needs no
\* float arithmetic to decide whether the step is possible.)
FitProgress == pc = "canvas" /\ pc' \in {"scaled", "unwind"}

\* The script is single-threaded and synchronous, and no statement of it
\* blocks: a statement that can be executed is executed.
FairBatchSpec ==
    BatchInit /\ [][BatchNext]_vars /\ WF_vars(OtherSteps) /\ WF_pc(FitProgress)

(***************************************************************************)
(* Properties.                                                             *)
(***************************************************************************)
TypeOK ==
    /\ pc \in {"idle", "entry", "opened", "rgb", "canvas", "scaled", "resized",
               "pasted", "saved", "unwind", "returned", "raised"}
    /\ bpc \in {"none", "start", "loop", "call", "done"}
    /\ fn \in {Feature, Tablet}

\* The file being converted.
Source == folder[input_path]

\* A source of positive width and height and a canvas of positive width and
\* height.
ValidGeometry ==
    /\ Source.width >= 1 /\ Source.height >= 1
    /\ target_width >= 1 /\ target_height >= 1

\* The positions at which the scaled size has been computed.
Fitted == pc \in {"scaled", "resized", "pasted", "saved", "returned"}

\* The positions at which the paste offsets have been computed and used.
Centred == pc \in {"pasted", "saved", "returned"}

SourceIs(w, h) == Source.width = w /\ Source.height = h

TargetIs(w, h) == target_width = w /\ target_height = h

\* C1: whenever a source of positive size is converted onto a canvas of
\* positive size, the canvas made by Image.new, the canvas after the paste
\* and the image written to output_path all have size exactly
\* (target_width, target_height).
C1_OutputSize ==
    ValidGeometry =>
        /\ pc \in {"canvas", "scaled", "resized", "pasted", "saved", "returned"}
              => new_img.size = <<target_width, target_height>>
        /\ output_path \in DOMAIN disk
              => disk[output_path].size = <<target_width, target_height>>

\* A phone screenshot (9:20) written onto the 16:9 tablet canvas.
C1_Witness ==
    /\ pc = "returned" /\ fn = Tablet
    /\ SourceIs(1080, 2400) /\ TargetIs(1920, 1080)
    /\ disk[output_path].size = <<1920, 1080>>

\* C2: the scaled size never exceeds the fill bound: new_width is at most
\* target_width * fillX and new_height at most target_height * fillY, both
\* against the float products the code computes and against the exact
\* fractions (1 and 1; 4/5 and 9/10).
C2_WithinFillBound ==
    (ValidGeometry /\ Fitted) =>
        /\ FLeq(ToFloat(new_width), BoundX(fn, target_width))
        /\ FLeq(ToFloat(new_height), BoundY(fn, target_height))
        /\ fn = Feature => /\ new_width <= target_width
                           /\ new_height <= target_height
        /\ fn = Tablet => /\ 5 * new_width <= 4 * target_width
                          /\ 10 * new_height <= 9 * target_height

\* A source whose width stays strictly inside its bound (height limits).
C2_Witness ==
    /\ pc = "scaled" /\ fn = Tablet
    /\ SourceIs(1080, 2400) /\ TargetIs(1920, 1080)
    /\ new_width = 437 /\ 5 * new_width < 4 * target_width

\* |n - t * num / den| <= 1
WithinOnePx(n, t, num, den) ==
    /\ den * n - num * t <= den
    /\ num * t - den * n <= den

\* C3: after the fit step one scaled dimension is within 1 px of its fill
\* bound (target_width * fillX or target_height * fillY), and the source
\* 1080x2400 on the 1920x1080 tablet canvas is scaled to (437, 972).
C3_LimitingDimension ==
    (ValidGeometry /\ Fitted) =>
        /\ fn = Feature =>
              \/ WithinOnePx(new_width, target_width, 1, 1)
              \/ WithinOnePx(new_height, target_height, 1, 1)
        /\ fn = Tablet =>
              \/ WithinOnePx(new_width, target_width, 4, 5)
              \/ WithinOnePx(new_height, target_height, 9, 10)
        /\ (fn = Tablet /\ SourceIs(1080, 2400) /\ TargetIs(1920, 1080))
              => (new_width = 437 /\ new_height = 972)

\* A source on which float rounding makes the limiting dimension fall 1 px
\* short of its bound: 500 / 19 * 19 < 500.
C3_Witness ==
    /\ pc = "scaled" /\ fn = Feature
    /\ SourceIs(2, 19) /\ TargetIs(1024, 500)
    /\ new_width = 52 /\ new_height = 499

\* C4: the paste offsets pad symmetrically up to rounding: 2*x + new_width
\* is target_width or target_width - 1, 2*y + new_height is target_height
\* or target_height - 1; the source 2000x1000 on the 1024x500 canvas is
\* scaled to 1000x500 and pasted at (12, 0).
C4_SymmetricPadding ==
    (ValidGeometry /\ Centred) =>
        /\ target_width - (2 * x + new_width) \in {0, 1}
        /\ target_height - (2 * y + new_height) \in {0, 1}
        /\ new_img.box = <<x, y, new_width, new_height>>
        /\ (fn = Feature /\ SourceIs(2000, 1000) /\ TargetIs(1024, 500))
              => (new_width = 1000 /\ new_height = 500 /\ x = 12 /\ y = 0)

\* The example of the claim, pasted.
C4_Witness ==
    /\ pc = "pasted" /\ fn = Feature
    /\ SourceIs(2000, 1000) /\ TargetIs(1024, 500)
    /\ x = 12 /\ y = 0

\* The source already has the size of the canvas.
AlreadySized ==
    Source.width = target_width /\ Source.height = target_height

\* The pasted image covers the whole canvas: scale 1, size kept, offset (0,0).
CoversCanvas ==
    /\ scale = ToFloat(1)
    /\ new_width = Source.width /\ new_height = Source.height
    /\ x = 0 /\ y = 0
    /\ new_img.box = <<0, 0, target_width, target_height>>

\* C5 as stated: a source that already has the target size gets scale 1,
\* keeps its size and is pasted at (0, 0), in both functions.
C5_Original ==
    (ValidGeometry /\ AlreadySized /\ Centred) => CoversCanvas

\* C5 (amended): a source that already has the target size gets scale 1,
\* keeps its size, is pasted at (0, 0) and is written with its own size in
\* convert_feature_graphic; in create_tablet_screenshot it is scaled into
\* the 0.8 x 0.9 fill box and does not cover the canvas.
C5_Amended ==
    (ValidGeometry /\ AlreadySized /\ Centred) =>
        /\ fn = Feature =>
              /\ CoversCanvas
              /\ pc = "returned" =>
                    disk[output_path].size = <<Source.width, Source.height>>
        /\ fn = Tablet =>
              /\ 5 * new_width <= 4 * target_width
              /\ 10 * new_height <= 9 * target_height
              /\ new_img.box # <<0, 0, target_width, target_height>>

\* A 1024x500 source through convert_feature_graphic.
C5_Witness ==
    /\ pc = "returned" /\ fn = Feature
    /\ SourceIs(1024, 500) /\ TargetIs(1024, 500)
    /\ new_img.box = <<0, 0, 1024, 500>>

\* C6: process_screenshots runs to completion, and when it has, the files
\* handed to create_tablet_screenshot are exactly the names of the listing
\* with an image extension, each once and in listing order, whichever of
\* them failed.
C6_EveryFileAttempted ==
    /\ <>(bpc = "done")
    /\ [](bpc = "done" => attempted = SelectSeq(listing, IsImageName))

\* A run in which a file was attempted after another one had failed.
C6_Witness ==
    /\ bpc = "done"
    /\ \E i, j \in 1..Len(log) :
          /\ i < j
          /\ log[i].line = "Error converting"
          /\ log[j].line = "Converting"

ImageNames == {n \in Range(listing) : IsImageName(n)}

ValidNames == {n \in ImageNames : folder[n].fault = "none"}

\* Files whose data cannot be decoded, at open or when the pixels are loaded.
CorruptNames ==
    {n \in ImageNames : folder[n].fault \in {"open", "convert", "resize"}}

ErrorLines == {i \in 1..Len(log) : log[i].line = "Error converting"}

\* C7 as stated: over a folder of n valid and k corrupt image files the
\* batch ends with exactly n output files, one tablet_<stem>.png for each
\* valid input, and exactly k reported errors.
C7_OneOutputPerValidFile ==
    (bpc = "done" /\ ImageNames = ValidNames \cup CorruptNames) =>
        /\ DOMAIN disk = {OutputName(n) : n \in ValidNames}
        /\ Cardinality(DOMAIN disk) = Cardinality(ValidNames)
        /\ Cardinality(ErrorLines) = Cardinality(CorruptNames)

C9_ScaledNonEmpty ==
    ( /\ Source.width >= 1 /\ Source.height >= 1
      /\ <<target_width, target_height>> = DefaultTarget(fn)
      /\ pc = "scaled" )
    => (new_width >= 1 /\ new_height >= 1)

\* C10: at most one source file is open at any moment, and none is open
\* outside a call of create_tablet_screenshot: not between two files, not
\* once the call has returned or raised, not when the batch has ended.
C10_OneOpenFile ==
    /\ Cardinality(openFiles) <= 1
    /\ openFiles \subseteq {input_path}
    /\ bpc \in {"start", "loop", "done"} => openFiles = {}
    /\ pc \in {"idle", "entry", "returned", "raised"} => openFiles = {}

\* A batch that went on to another file after a conversion had failed
\* inside the with block.
C10_Witness ==
    /\ bpc = "done" /\ openFiles = {}
    /\ \E i \in 1..(Len(attempted) - 1) :
          folder[attempted[i]].fault \in {"convert", "resize", "paste", "save"}
====
